---------------------------- MODULE Spec2Model ----------------------------
(***************************************************************************)
(* Model of src/a3.py: CodeforcesScraper.scrape_problem, its helper        *)
(* extract_problem_statement, and the sequential driver under __main__.    *)
(*                                                                         *)
(* Text is a sequence of one-character strings.  Python's optional values  *)
(* (None or a value) are sequences of length 0 or 1.  A parsed document is *)
(* a tree of nodes [tag, cls, text, kids]; a text node has tag "#text".    *)
(***************************************************************************)
EXTENDS Integers, Sequences, FiniteSets, TLC

VARIABLES
    problem_array,      \* the list the driver iterates over
    idx,                \* how many identifiers the driver's loop has taken
    pc,                 \* the position in the driver and in scrape_problem
    sessions,           \* every browser session created so far: "open" or "quit"
    soup,               \* the parsed snapshot of the current call, or None
    problem_statement,  \* the statement region of the current call, or None
    data,               \* the dict under construction
    exc,                \* the exception raised in the current call, "" if none
    retval,             \* what the try statement decided to return
    result,             \* the driver's variable result
    files,              \* the output directory: path -> content
    writes,             \* the paths opened for writing by the current call
    files_at_call,      \* the output directory as the current call found it
    attempted,          \* the identifiers passed to scrape_problem, in order
    console,            \* the driver's per-identifier reports
    linesep             \* os.linesep of the platform the script runs on

vars == <<linesep, problem_array, idx, pc, sessions, soup, problem_statement, data,
          exc, retval, result, files, writes, files_at_call, attempted, console>>

(***************************************************************************)
(* Bounds of the model.                                                    *)
(***************************************************************************)
MaxProblems == 2
MaxIdLen == 2
MaxMarkers == 2
MaxBody == 2
MaxSamples == 2
MaxTagBoxes == 2
MaxPartial == 2

(***************************************************************************)
(* Generic helpers.                                                        *)
(***************************************************************************)
None == <<>>
Some(x) == <<x>>
Range(s) == {s[i] : i \in 1..Len(s)}
Min(a, b) == IF a < b THEN a ELSE b

RECURSIVE Flatten(_)
Flatten(ss) ==
    IF Len(ss) = 0 THEN <<>>
    ELSE IF Len(ss) = 1 THEN ss[1]
    ELSE LET half == Len(ss) \div 2
         IN  Flatten(SubSeq(ss, 1, half)) \o Flatten(SubSeq(ss, half + 1, Len(ss)))

RECURSIVE SeqsUpTo(_, _)
SeqsUpTo(S, n) ==
    IF n = 0 THEN {<<>>}
    ELSE LET R == SeqsUpTo(S, n - 1)
         IN  R \cup {Append(r, x) : r \in {q \in R : Len(q) = n - 1}, x \in S}

(***************************************************************************)
(* str.strip(): leading and trailing whitespace removed.  Whitespace is    *)
(* what str.isspace() accepts: tab, line feed, vertical tab, form feed,    *)
(* carriage return, the separators 0x1c-0x1f, space, next line (0x85) and  *)
(* no-break space (0xa0).  The whitespace beyond Latin-1 (U+1680, U+2000 - *)
(* U+200A, U+2028, U+2029, U+202F, U+205F, U+3000) cannot be written in a  *)
(* string of this module and is outside the model's alphabet.              *)
(***************************************************************************)
Whitespace ==
    {"\t", "\n", "", "\f", "\r", "", "", "", "", " ", "", " "}
IsSpace(c) == c \in Whitespace

RECURSIVE LStrip(_)
LStrip(s) == IF s # <<>> /\ IsSpace(Head(s)) THEN LStrip(Tail(s)) ELSE s

RECURSIVE RStrip(_)
RStrip(s) ==
    IF s # <<>> /\ IsSpace(s[Len(s)]) THEN RStrip(SubSeq(s, 1, Len(s) - 1)) ELSE s

Strip(s) == RStrip(LStrip(s))

(***************************************************************************)
(* str.replace('/', '_') and '\n'.join(...).                               *)
(***************************************************************************)
\* Faulty variant: only the first occurrence is replaced (str.replace(old, new, 1)).
RECURSIVE ReplaceFirst(_, _, _)
ReplaceFirst(s, old, new) ==
    IF s = <<>> THEN <<>>
    ELSE IF Head(s) = old THEN <<new>> \o Tail(s)
    ELSE <<Head(s)>> \o ReplaceFirst(Tail(s), old, new)

Replace(s, old, new) == [i \in 1..Len(s) |-> IF s[i] = old THEN new ELSE s[i]]

RECURSIVE Join(_, _)
Join(sep, parts) ==
    IF parts = <<>> THEN <<>>
    ELSE IF Len(parts) = 1 THEN Head(parts)
    ELSE Head(parts) \o sep \o Join(sep, Tail(parts))

(***************************************************************************)
(* BeautifulSoup queries.                                                  *)
(***************************************************************************)
Txt(chars) == [tag |-> "#text", cls |-> <<>>, text |-> chars, kids |-> <<>>]
El(tag, cls, kids) == [tag |-> tag, cls |-> cls, text |-> <<>>, kids |-> kids]

\* Element descendants of a node in document order (the node itself excluded).
RECURSIVE DescendantsOf(_)
DescendantsOf(kids) ==
    IF kids = <<>> THEN <<>>
    ELSE LET h == Head(kids)
         IN  (IF h.tag = "#text" THEN <<>> ELSE <<h>> \o DescendantsOf(h.kids))
             \o DescendantsOf(Tail(kids))

\* Tag.text: every text node below the node, concatenated in document order.
RECURSIVE TextOfKids(_)
TextOfKids(kids) ==
    IF kids = <<>> THEN <<>>
    ELSE LET h == Head(kids)
         IN  (IF h.tag = "#text" THEN h.text ELSE TextOfKids(h.kids))
             \o TextOfKids(Tail(kids))

GetText(node) == TextOfKids(node.kids)

\* class_=c: one of the element's classes is c, or its whole class attribute is c.
\* c is the sequence of the words of the query string.
ClassMatches(node, c) ==
    \/ c = <<>>
    \/ Len(c) = 1 /\ c[1] \in Range(node.cls)
    \/ node.cls = c

Matches(node, tags, c) == node.tag \in tags /\ ClassMatches(node, c)

FindAll(node, tags, c) ==
    LET d == DescendantsOf(node.kids)
        Test(n) == Matches(n, tags, c)
    IN  SelectSeq(d, Test)

\* find(): the first match, or None.
Find(node, tags, c) ==
    LET all == FindAll(node, tags, c)
    IN  IF all = <<>> THEN None ELSE Some(all[1])

(***************************************************************************)
(* extract_problem_statement: two passes over the statement region, the    *)
(* first appending a fragment per math span, the second a fragment per p   *)
(* or div that holds no math span; then the non-empty fragments joined.    *)
(***************************************************************************)
Dollars(latex_code) == <<"$", "$", " ">> \o latex_code \o <<" ", "$", "$">>

RECURSIVE LatexLoop(_, _)
LatexLoop(latex_elements, problem_text) ==
    IF latex_elements = <<>> THEN problem_text
    ELSE LET latex_code == Strip(GetText(Head(latex_elements)))
         IN  LatexLoop(Tail(latex_elements), Append(problem_text, Dollars(latex_code)))

RECURSIVE ParagraphLoop(_, _)
ParagraphLoop(paragraphs, problem_text) ==
    IF paragraphs = <<>> THEN problem_text
    ELSE LET paragraph == Head(paragraphs)
         IN  ParagraphLoop(Tail(paragraphs),
                 IF Find(paragraph, {"span"}, <<"math">>) = None
                 THEN Append(problem_text, Strip(GetText(paragraph)))
                 ELSE problem_text)

\* filter(None, problem_text): the empty strings are dropped.
FilterNone(problem_text) ==
    LET Truthy(s) == s # <<>> IN SelectSeq(problem_text, Truthy)

\* Faulty variant: one walk in document order, math and prose interleaved.
RECURSIVE SinglePassLoop(_, _)
SinglePassLoop(elements, problem_text) ==
    IF elements = <<>> THEN problem_text
    ELSE LET e == Head(elements)
         IN  SinglePassLoop(Tail(elements),
                 IF Matches(e, {"span"}, <<"math">>)
                 THEN Append(problem_text, Dollars(Strip(GetText(e))))
                 ELSE IF e.tag \in {"p", "div"} /\ Find(e, {"span"}, <<"math">>) = None
                 THEN Append(problem_text, Strip(GetText(e)))
                 ELSE problem_text)

extract_single_pass(problem_statement_div) ==
    Join(<<"\n">>,
         FilterNone(SinglePassLoop(DescendantsOf(problem_statement_div.kids), <<>>)))

extract_problem_statement(problem_statement_div) ==
    LET latex_elements == FindAll(problem_statement_div, {"span"}, <<"math">>)
        after_latex == LatexLoop(latex_elements, <<>>)
        paragraphs == FindAll(problem_statement_div, {"p", "div"}, <<>>)
        problem_text == ParagraphLoop(paragraphs, after_latex)
    IN  Join(<<"\n">>, FilterNone(problem_text))

(***************************************************************************)
(* The field extraction of scrape_problem (lines 59-81, 89-117).  data is  *)
(* the dict: a function from the keys set so far to their values.          *)
(***************************************************************************)
EmptyDict == [k \in {} |-> <<>>]
SetItem(d, k, v) == (k :> v) @@ d

\* Faulty variant: the title key is set even when no title marker exists.
TitleStepAlways(d, region) ==
    LET title_div == Find(region, {"div"}, <<"title">>)
    IN  SetItem(d, "title",
                IF title_div # None THEN Strip(GetText(title_div[1])) ELSE <<>>)

TitleStep(d, region) ==
    LET title_div == Find(region, {"div"}, <<"title">>)
    IN  IF title_div # None
        THEN SetItem(d, "title", Strip(GetText(title_div[1]))) ELSE d

TimeLimitStep(d, region) ==
    LET limits == FindAll(region, {"div"}, <<"time-limit">>)
    IN  IF limits # <<>>
        THEN SetItem(d, "time_limit", Strip(GetText(limits[1]))) ELSE d

MemoryLimitStep(d, region) ==
    LET memory_limit == Find(region, {"div"}, <<"memory-limit">>)
    IN  IF memory_limit # None
        THEN SetItem(d, "memory_limit", Strip(GetText(memory_limit[1]))) ELSE d

StatementStep(d, region) ==
    SetItem(d, "statement", extract_problem_statement(region))

RECURSIVE SampleLoop(_, _)
SampleLoop(sample_tests, samples) ==
    IF sample_tests = <<>> THEN samples
    ELSE LET test == Head(sample_tests)
             input_div == Find(test, {"div"}, <<"input">>)
             output_div == Find(test, {"div"}, <<"output">>)
             input_pre == IF input_div # None
                          THEN Find(input_div[1], {"pre"}, <<>>) ELSE None
             output_pre == IF output_div # None
                           THEN Find(output_div[1], {"pre"}, <<>>) ELSE None
         IN  SampleLoop(Tail(sample_tests),
                 IF input_div # None /\ output_div # None
                    /\ input_pre # None /\ output_pre # None
                 THEN Append(samples, [input |-> Strip(GetText(input_pre[1])),
                                       output |-> Strip(GetText(output_pre[1]))])
                 ELSE samples)

\* Faulty variant: a pair is kept as soon as the input side is complete.
RECURSIVE SampleLoopInputOnly(_, _)
SampleLoopInputOnly(sample_tests, samples) ==
    IF sample_tests = <<>> THEN samples
    ELSE LET test == Head(sample_tests)
             input_div == Find(test, {"div"}, <<"input">>)
             output_div == Find(test, {"div"}, <<"output">>)
             input_pre == IF input_div # None
                          THEN Find(input_div[1], {"pre"}, <<>>) ELSE None
             output_pre == IF output_div # None
                           THEN Find(output_div[1], {"pre"}, <<>>) ELSE None
         IN  SampleLoopInputOnly(Tail(sample_tests),
                 IF input_pre # None
                 THEN Append(samples,
                        [input |-> Strip(GetText(input_pre[1])),
                         output |-> IF output_pre # None
                                    THEN Strip(GetText(output_pre[1])) ELSE <<>>])
                 ELSE samples)

SamplesOfInputOnly(region) ==
    SampleLoopInputOnly(FindAll(region, {"div"}, <<"sample-test">>), <<>>)

SamplesOf(region) ==
    SampleLoop(FindAll(region, {"div"}, <<"sample-test">>), <<>>)

RoundBox == <<"roundbox", "borderTopRound", "borderBottomRound">>

RECURSIVE TagLoop(_, _)
TagLoop(tag_divs, tags) ==
    IF tag_divs = <<>> THEN tags
    ELSE LET span == Find(Head(tag_divs), {"span"}, <<"tag-box">>)
         IN  TagLoop(Tail(tag_divs),
                 IF span # None THEN Append(tags, Strip(GetText(span[1]))) ELSE tags)

\* Faulty variant: the tag boxes are looked for inside the statement region only.
TagsOfRegionOnly(document) ==
    LET region == Find(document, {"div"}, <<"problem-statement">>)
    IN  IF region = None THEN <<>>
        ELSE TagLoop(FindAll(region[1], {"div"}, RoundBox), <<>>)

TagsOf(document) == TagLoop(FindAll(document, {"div"}, RoundBox), <<>>)

(***************************************************************************)
(* json.dump(data, f, indent=2, ensure_ascii=False): the text written to   *)
(* the .json artifact.  The keys come in the order the code inserts them.  *)
(***************************************************************************)
\* The escapes of json.encoder: the short ones, and \u00XX for the other
\* control characters; every other character is written as it is.
ShortEscapes ==
    "\"" :> <<"\\", "\"">> @@ "\\" :> <<"\\", "\\">> @@ "\n" :> <<"\\", "n">> @@
    "\r" :> <<"\\", "r">> @@ "\t" :> <<"\\", "t">> @@ "\f" :> <<"\\", "f">> @@
    "" :> <<"\\", "b">>
ControlEscapes ==
    "" :> <<"\\", "u", "0", "0", "0", "1">> @@ "" :> <<"\\", "u", "0", "0", "0", "2">> @@
    "" :> <<"\\", "u", "0", "0", "0", "3">> @@ "" :> <<"\\", "u", "0", "0", "0", "4">> @@
    "" :> <<"\\", "u", "0", "0", "0", "5">> @@ "" :> <<"\\", "u", "0", "0", "0", "6">> @@
    "" :> <<"\\", "u", "0", "0", "0", "7">> @@ "" :> <<"\\", "u", "0", "0", "0", "b">> @@
    "" :> <<"\\", "u", "0", "0", "0", "e">> @@ "" :> <<"\\", "u", "0", "0", "0", "f">> @@
    "" :> <<"\\", "u", "0", "0", "1", "0">> @@ "" :> <<"\\", "u", "0", "0", "1", "1">> @@
    "" :> <<"\\", "u", "0", "0", "1", "2">> @@ "" :> <<"\\", "u", "0", "0", "1", "3">> @@
    "" :> <<"\\", "u", "0", "0", "1", "4">> @@ "" :> <<"\\", "u", "0", "0", "1", "5">> @@
    "" :> <<"\\", "u", "0", "0", "1", "6">> @@ "" :> <<"\\", "u", "0", "0", "1", "7">> @@
    "" :> <<"\\", "u", "0", "0", "1", "8">> @@ "" :> <<"\\", "u", "0", "0", "1", "9">> @@
    "" :> <<"\\", "u", "0", "0", "1", "a">> @@ "" :> <<"\\", "u", "0", "0", "1", "b">> @@
    "" :> <<"\\", "u", "0", "0", "1", "c">> @@ "" :> <<"\\", "u", "0", "0", "1", "d">> @@
    "" :> <<"\\", "u", "0", "0", "1", "e">> @@ "" :> <<"\\", "u", "0", "0", "1", "f">>
JsonEscapes == ShortEscapes @@ ControlEscapes
JsonEscape(c) == IF c \in DOMAIN JsonEscapes THEN JsonEscapes[c] ELSE <<c>>

JsonString(s) ==
    <<"\"">> \o Flatten([i \in 1..Len(s) |-> JsonEscape(s[i])]) \o <<"\"">>

Indent(level) == [i \in 1..(2 * level) |-> " "]

\* A list or an object whose rendered items stand one per line, one level deeper.
JsonBlock(open, items, close, level) ==
    IF items = <<>> THEN <<open, close>>
    ELSE <<open>>
         \o Flatten([i \in 1..Len(items) |->
                (IF i = 1 THEN <<"\n">> ELSE <<",", "\n">>)
                \o Indent(level + 1) \o items[i]])
         \o <<"\n">> \o Indent(level) \o <<close>>

JsonMember(key, value) == JsonString(key) \o <<":", " ">> \o value

KeyOrder == <<"title", "time_limit", "memory_limit", "statement", "samples", "tags">>
KeyChars ==
    "title" :> <<"t", "i", "t", "l", "e">> @@
    "time_limit" :> <<"t", "i", "m", "e", "_", "l", "i", "m", "i", "t">> @@
    "memory_limit" :> <<"m", "e", "m", "o", "r", "y", "_", "l", "i", "m", "i", "t">> @@
    "statement" :> <<"s", "t", "a", "t", "e", "m", "e", "n", "t">> @@
    "samples" :> <<"s", "a", "m", "p", "l", "e", "s">> @@
    "tags" :> <<"t", "a", "g", "s">>

JsonSample(sample, level) ==
    JsonBlock("{", <<JsonMember(<<"i", "n", "p", "u", "t">>, JsonString(sample.input)),
                     JsonMember(<<"o", "u", "t", "p", "u", "t">>, JsonString(sample.output))>>,
              "}", level)

JsonValue(d, key) ==
    IF key = "samples"
    THEN JsonBlock("[", [i \in 1..Len(d[key]) |-> JsonSample(d[key][i], 2)], "]", 1)
    ELSE IF key = "tags"
    THEN JsonBlock("[", [i \in 1..Len(d[key]) |-> JsonString(d[key][i])], "]", 1)
    ELSE JsonString(d[key])

JsonDump(d) ==
    LET Present(key) == key \in DOMAIN d
        keys == SelectSeq(KeyOrder, Present)
    IN  JsonBlock("{", [i \in 1..Len(keys) |->
                          JsonMember(KeyChars[keys[i]], JsonValue(d, keys[i]))],
                  "}", 0)

(***************************************************************************)
(* open(path, 'w', encoding='utf-8'): the bytes that reach the file.  A    *)
(* byte is written as the Latin-1 character of its value.  Text mode       *)
(* first turns every "\n" into os.linesep ("\n", or "\r\n" on Windows);    *)
(* UTF-8 then keeps a character up to U+007F as one byte and gives a       *)
(* character U+0080..U+00FF a lead byte 0xC2 or 0xC3 and a second byte.    *)
(***************************************************************************)
LineSeps == { <<"\n">>, <<"\r", "\n">> }
TranslateNewlines(s, sep) ==
    Flatten([i \in 1..Len(s) |-> IF s[i] = "\n" THEN sep ELSE <<s[i]>>])

TwoByteChars ==
    "" :> <<"Â", "">> @@ "" :> <<"Â", "">> @@ "" :> <<"Â", "">> @@ "" :> <<"Â", "">> @@
    "" :> <<"Â", "">> @@ "" :> <<"Â", "">> @@ "" :> <<"Â", "">> @@ "" :> <<"Â", "">> @@
    "" :> <<"Â", "">> @@ "" :> <<"Â", "">> @@ "" :> <<"Â", "">> @@ "" :> <<"Â", "">> @@
    "" :> <<"Â", "">> @@ "" :> <<"Â", "">> @@ "" :> <<"Â", "">> @@ "" :> <<"Â", "">> @@
    "" :> <<"Â", "">> @@ "" :> <<"Â", "">> @@ "" :> <<"Â", "">> @@ "" :> <<"Â", "">> @@
    "" :> <<"Â", "">> @@ "" :> <<"Â", "">> @@ "" :> <<"Â", "">> @@ "" :> <<"Â", "">> @@
    "" :> <<"Â", "">> @@ "" :> <<"Â", "">> @@ "" :> <<"Â", "">> @@ "" :> <<"Â", "">> @@
    "" :> <<"Â", "">> @@ "" :> <<"Â", "">> @@ "" :> <<"Â", "">> @@ "" :> <<"Â", "">> @@
    " " :> <<"Â", " ">> @@ "¡" :> <<"Â", "¡">> @@ "¢" :> <<"Â", "¢">> @@ "£" :> <<"Â", "£">> @@
    "¤" :> <<"Â", "¤">> @@ "¥" :> <<"Â", "¥">> @@ "¦" :> <<"Â", "¦">> @@ "§" :> <<"Â", "§">> @@
    "¨" :> <<"Â", "¨">> @@ "©" :> <<"Â", "©">> @@ "ª" :> <<"Â", "ª">> @@ "«" :> <<"Â", "«">> @@
    "¬" :> <<"Â", "¬">> @@ "­" :> <<"Â", "­">> @@ "®" :> <<"Â", "®">> @@ "¯" :> <<"Â", "¯">> @@
    "°" :> <<"Â", "°">> @@ "±" :> <<"Â", "±">> @@ "²" :> <<"Â", "²">> @@ "³" :> <<"Â", "³">> @@
    "´" :> <<"Â", "´">> @@ "µ" :> <<"Â", "µ">> @@ "¶" :> <<"Â", "¶">> @@ "·" :> <<"Â", "·">> @@
    "¸" :> <<"Â", "¸">> @@ "¹" :> <<"Â", "¹">> @@ "º" :> <<"Â", "º">> @@ "»" :> <<"Â", "»">> @@
    "¼" :> <<"Â", "¼">> @@ "½" :> <<"Â", "½">> @@ "¾" :> <<"Â", "¾">> @@ "¿" :> <<"Â", "¿">> @@
    "À" :> <<"Ã", "">> @@ "Á" :> <<"Ã", "">> @@ "Â" :> <<"Ã", "">> @@ "Ã" :> <<"Ã", "">> @@
    "Ä" :> <<"Ã", "">> @@ "Å" :> <<"Ã", "">> @@ "Æ" :> <<"Ã", "">> @@ "Ç" :> <<"Ã", "">> @@
    "È" :> <<"Ã", "">> @@ "É" :> <<"Ã", "">> @@ "Ê" :> <<"Ã", "">> @@ "Ë" :> <<"Ã", "">> @@
    "Ì" :> <<"Ã", "">> @@ "Í" :> <<"Ã", "">> @@ "Î" :> <<"Ã", "">> @@ "Ï" :> <<"Ã", "">> @@
    "Ð" :> <<"Ã", "">> @@ "Ñ" :> <<"Ã", "">> @@ "Ò" :> <<"Ã", "">> @@ "Ó" :> <<"Ã", "">> @@
    "Ô" :> <<"Ã", "">> @@ "Õ" :> <<"Ã", "">> @@ "Ö" :> <<"Ã", "">> @@ "×" :> <<"Ã", "">> @@
    "Ø" :> <<"Ã", "">> @@ "Ù" :> <<"Ã", "">> @@ "Ú" :> <<"Ã", "">> @@ "Û" :> <<"Ã", "">> @@
    "Ü" :> <<"Ã", "">> @@ "Ý" :> <<"Ã", "">> @@ "Þ" :> <<"Ã", "">> @@ "ß" :> <<"Ã", "">> @@
    "à" :> <<"Ã", " ">> @@ "á" :> <<"Ã", "¡">> @@ "â" :> <<"Ã", "¢">> @@ "ã" :> <<"Ã", "£">> @@
    "ä" :> <<"Ã", "¤">> @@ "å" :> <<"Ã", "¥">> @@ "æ" :> <<"Ã", "¦">> @@ "ç" :> <<"Ã", "§">> @@
    "è" :> <<"Ã", "¨">> @@ "é" :> <<"Ã", "©">> @@ "ê" :> <<"Ã", "ª">> @@ "ë" :> <<"Ã", "«">> @@
    "ì" :> <<"Ã", "¬">> @@ "í" :> <<"Ã", "­">> @@ "î" :> <<"Ã", "®">> @@ "ï" :> <<"Ã", "¯">> @@
    "ð" :> <<"Ã", "°">> @@ "ñ" :> <<"Ã", "±">> @@ "ò" :> <<"Ã", "²">> @@ "ó" :> <<"Ã", "³">> @@
    "ô" :> <<"Ã", "´">> @@ "õ" :> <<"Ã", "µ">> @@ "ö" :> <<"Ã", "¶">> @@ "÷" :> <<"Ã", "·">> @@
    "ø" :> <<"Ã", "¸">> @@ "ù" :> <<"Ã", "¹">> @@ "ú" :> <<"Ã", "º">> @@ "û" :> <<"Ã", "»">> @@
    "ü" :> <<"Ã", "¼">> @@ "ý" :> <<"Ã", "½">> @@ "þ" :> <<"Ã", "¾">> @@ "ÿ" :> <<"Ã", "¿">>
Utf8Char(c) == IF c \in DOMAIN TwoByteChars THEN TwoByteChars[c] ELSE <<c>>
Utf8(s) == Flatten([i \in 1..Len(s) |-> Utf8Char(s[i])])

\* What text_file.write(s) and json.dump(..., f) put into the file.
FileBytes(s, sep) == Utf8(TranslateNewlines(s, sep))

(***************************************************************************)
(* File names (lines 84 and 120).  os.path.join puts os.sep between the    *)
(* directory and the name: "/" where os.linesep is "\n" (posixpath), "\\"  *)
(* where it is "\r\n" (ntpath).  data_dir ends in neither a separator nor  *)
(* a colon and the name starts with "problem_", so the separator is always *)
(* inserted and the directory is never discarded.                          *)
(***************************************************************************)
data_dir == <<"scraped_data">>
PathSep(ls) == IF ls = <<"\r", "\n">> THEN "\\" ELSE "/"
PathJoin(dir, name, ls) == dir \o <<PathSep(ls)>> \o name
text_file_path(problem_id, ls) ==
    PathJoin(data_dir, <<"problem_">> \o Replace(problem_id, "/", "_") \o <<".txt">>, ls)
output_file(problem_id, ls) ==
    PathJoin(data_dir, <<"problem_">> \o Replace(problem_id, "/", "_") \o <<".json">>, ls)

(***************************************************************************)
(* The inputs: identifiers, and the documents the site may serve.          *)
(***************************************************************************)
ProblemArray ==
    << <<"1", "/", "A">>, <<"1", "/", "B">>, <<"1", "/", "C">>,
       <<"2", "/", "A">>, <<"2", "/", "B">>, <<"2", "/", "C">> >>

IdChars == {"1", "/", "A"}
Identifiers == SeqsUpTo(IdChars, MaxIdLen)

DigitChar == <<"1", "2", "3", "4", "5", "6", "7", "8", "9">>

Document(kids) == El("[document]", <<>>, kids)
Region(kids) == El("div", <<"problem-statement">>, kids)
P(chars) == El("p", <<>>, <<Txt(chars)>>)
MathSpan(chars) == El("span", <<"math">>, <<Txt(chars)>>)
Pre(chars) == El("pre", <<>>, <<Txt(chars)>>)

XPlusY == <<"x", "+", "y">>
ComputeXPlusY == <<"C", "o", "m", "p", "u", "t", "e", " ", "x", "+", "y", ".">>

\* The i-th marker of a kind carries the text "<letter><i>" between a no-break
\* space and a CR LF line end.
Marker(class, letter, i) ==
    El("div", <<class>>,
       <<El("div", <<"property-title">>, <<>>), Txt(<<" ", letter, DigitChar[i], "\r", "\n">>)>>)
Markers(class, letter, n) == [i \in 1..n |-> Marker(class, letter, i)]
Header(nTitle, nTime, nMemory) ==
    El("div", <<"header">>,
       Markers("title", "T", nTitle) \o Markers("time-limit", "L", nTime)
       \o Markers("memory-limit", "M", nMemory))

BodyElems ==
    { MathSpan(<<" ">> \o XPlusY \o <<" ">>),
      P(ComputeXPlusY),
      El("p", <<>>, <<Txt(<<"l", "e", "t", " ">>), MathSpan(<<"n">>)>>),
      El("div", <<>>, <<P(<<"a", "\"", "\f">>)>>),
      El("div", <<>>, <<P(<<"c">>), MathSpan(<<"k">>)>>),
      P(<<" ", "\r", "\n">>),
      El("span", <<"tex-span", "math">>, <<>>),
      El("span", <<"tex-span">>, <<Txt(<<"z">>)>>) }

InputDiv(kids) == El("div", <<"input">>, <<El("div", <<"title">>, <<Txt(<<"I">>)>>)>> \o kids)
OutputDiv(kids) == El("div", <<"output">>, <<El("div", <<"title">>, <<Txt(<<"O">>)>>)>> \o kids)
SampleTest(kids) == El("div", <<"sample-test">>, kids)
SampleKinds ==
    { SampleTest(<<InputDiv(<<Pre(<<"1", " ", "2", "\r", "\n">>)>>), OutputDiv(<<Pre(<<"3", "\r", "\n">>)>>)>>),
      SampleTest(<<InputDiv(<<Pre(<<"4">>)>>), OutputDiv(<<Pre(<<>>)>>)>>),
      SampleTest(<<InputDiv(<<Pre(<<"5">>)>>)>>),
      SampleTest(<<OutputDiv(<<Pre(<<"6">>)>>)>>),
      SampleTest(<<InputDiv(<<>>), OutputDiv(<<Pre(<<"7">>)>>)>>),
      SampleTest(<<InputDiv(<<Pre(<<"8">>)>>), OutputDiv(<<>>)>>),
      SampleTest(<<InputDiv(<<>>), InputDiv(<<Pre(<<"9">>)>>), OutputDiv(<<Pre(<<"0">>)>>)>>) }

TagBox(cls, kids) == El("div", cls, kids)
TagSpan(chars) == El("span", <<"tag-box">>, <<Txt(chars)>>)
TagBoxKinds ==
    { TagBox(RoundBox, <<TagSpan(<<" ", "d", "p", " ">>)>>),
      TagBox(RoundBox, <<TagSpan(<<"m", "a", "t", "h">>)>>),
      TagBox(RoundBox, <<Txt(<<"n", "o">>)>>),
      TagBox(<<"roundbox", "borderBottomRound", "borderTopRound">>, <<TagSpan(<<"x">>)>>),
      TagBox(<<"roundbox", "sidebox", "borderTopRound", "borderBottomRound">>,
             <<TagSpan(<<"y">>)>>) }

FullSample == SampleTest(<<InputDiv(<<Pre(<<"1", " ", "2", "\r", "\n">>)>>), OutputDiv(<<Pre(<<"3", "\r", "\n">>)>>)>>)
DpBox == TagBox(RoundBox, <<TagSpan(<<" ", "d", "p", " ">>)>>)

\* Pages that differ in which optional markers the region holds.
MarkerPages ==
    { Document(<<Region(<<Header(nt, nl, nm), P(ComputeXPlusY)>>)>>) :
        nt \in 0..MaxMarkers, nl \in 0..MaxMarkers, nm \in 0..MaxMarkers }
\* Pages that differ in the statement body.
BodyPages == { Document(<<Region(body)>>) : body \in SeqsUpTo(BodyElems, MaxBody) }
\* Pages that differ in the sample tests.
SamplePages ==
    { Document(<<Region(<<Header(1, 1, 1), P(ComputeXPlusY),
                          El("div", <<"sample-tests">>, tests)>>)>>) :
        tests \in SeqsUpTo(SampleKinds, MaxSamples) }
\* Pages that differ in the tag boxes beside the region, with and without a region.
TagPages ==
    { Document(<<Region(<<Header(1, 1, 1), P(ComputeXPlusY)>>)>> \o boxes) :
        boxes \in SeqsUpTo(TagBoxKinds, MaxTagBoxes) }
NoRegionPages ==
    { Document(top \o boxes) :
        top \in { <<>>, <<El("span", <<"problem-statement">>, <<Txt(XPlusY)>>)>> },
        boxes \in SeqsUpTo(TagBoxKinds, MaxTagBoxes) }

FullPage ==
    Document(<<Region(<<Header(1, 1, 1),
                        El("div", <<>>, <<P(ComputeXPlusY), MathSpan(XPlusY)>>),
                        El("div", <<"sample-tests">>, <<FullSample>>)>>),
               DpBox>>)
BarePage == Document(<<Region(<<P(ComputeXPlusY)>>)>>)
NoRegionPage == Document(<<El("span", <<"problem-statement">>, <<Txt(XPlusY)>>), DpBox>>)

SmallPages == {FullPage, BarePage, NoRegionPage}
BigPages == MarkerPages \cup BodyPages \cup SamplePages \cup TagPages \cup NoRegionPages

(***************************************************************************)
(* The output directory.  A file opened for writing exists from then on   *)
(* and holds bytes; it is complete once the write and the close have       *)
(* succeeded.  A write that fails (file size limit, full disk) leaves the  *)
(* first n bytes of the content, for some n below its length.              *)
(***************************************************************************)
EmptyDir == [p \in {} |-> <<>>]
Complete(content) == [complete |-> TRUE, content |-> content]
Truncated(content, n) == [complete |-> FALSE, content |-> SubSeq(content, 1, n)]
PartialLengths(content) == 0..Min(MaxPartial, Len(content) - 1)
WriteFile(dir, path, file) == (path :> file) @@ dir

problem_id == problem_array[idx]

TypeOK ==
    /\ idx \in 0..Len(problem_array)
    /\ pc \in {"main", "setup_driver", "get", "wait", "parse", "extract", "write_text",
               "samples", "tags", "write_json", "except", "finally", "returned",
               "raised", "crashed", "done"}
    /\ exc \in {"", "WebDriverException", "TimeoutException", "Exception", "OSError"}
    /\ \A i \in 1..Len(sessions) : sessions[i] \in {"open", "quit"}
    /\ Len(soup) <= 1 /\ Len(problem_statement) <= 1
    /\ Len(retval) <= 1 /\ Len(result) <= 1

InitCommon ==
    /\ idx = 0
    /\ pc = "main"
    /\ sessions = <<>>
    /\ soup = None
    /\ problem_statement = None
    /\ data = EmptyDict
    /\ exc = ""
    /\ retval = None
    /\ result = None
    /\ files = EmptyDir
    /\ writes = <<>>
    /\ files_at_call = EmptyDir
    /\ attempted = <<>>
    /\ console = <<>>
    /\ linesep \in LineSeps

\* The script as written (its list cut to MaxProblems), or one call of
\* scrape_problem on an arbitrary identifier.
Init ==
    /\ problem_array \in
         {SubSeq(ProblemArray, 1, Min(MaxProblems, Len(ProblemArray)))}
         \cup {<<id>> : id \in Identifiers}
    /\ InitCommon

\* One call of scrape_problem('1/A') against every document of the bounded families.
InitPage ==
    /\ problem_array = <<ProblemArray[1]>>
    /\ InitCommon

(***************************************************************************)
(* The driver (lines 165-179).                                             *)
(***************************************************************************)
\* for problem in problem_array: result = scraper.scrape_problem(problem)
MainCall ==
    /\ pc = "main" /\ idx < Len(problem_array)
    /\ idx' = idx + 1
    /\ attempted' = Append(attempted, problem_array[idx + 1])
    /\ pc' = "setup_driver"
    /\ soup' = None /\ problem_statement' = None /\ data' = EmptyDict
    /\ exc' = "" /\ retval' = None /\ writes' = <<>>
    /\ files_at_call' = files
    /\ UNCHANGED <<linesep, problem_array, sessions, result, files, console>>

\* if result: ... else: ...
MainReport ==
    /\ pc = "returned"
    /\ console' = Append(console, IF result # None THEN "ok" ELSE "failed")
    /\ pc' = "main"
    /\ UNCHANGED <<linesep, problem_array, idx, sessions, soup, problem_statement, data,
                   exc, retval, result, files, writes, files_at_call, attempted>>

\* The loop has no handler: an exception out of scrape_problem ends the script.
MainUncaught ==
    /\ pc = "raised"
    /\ pc' = "crashed"
    /\ UNCHANGED <<linesep, problem_array, idx, sessions, soup, problem_statement, data,
                   exc, retval, result, files, writes, files_at_call, attempted, console>>

MainExit ==
    /\ pc = "main" /\ idx = Len(problem_array)
    /\ pc' = "done"
    /\ UNCHANGED <<linesep, problem_array, idx, sessions, soup, problem_statement, data,
                   exc, retval, result, files, writes, files_at_call, attempted, console>>

(***************************************************************************)
(* scrape_problem (lines 29-137).                                          *)
(***************************************************************************)
\* driver = self.setup_driver(): before the try statement.  webdriver.Chrome either
\* starts a session or raises (no executable at chrome_driver_path, no browser).
SetupDriver ==
    /\ pc = "setup_driver"
    /\ \/ /\ sessions' = Append(sessions, "open")
          /\ pc' = "get"
          /\ UNCHANGED exc
       \/ /\ exc' = "WebDriverException"
          /\ pc' = "raised"
          /\ UNCHANGED sessions
    /\ UNCHANGED <<linesep, problem_array, idx, soup, problem_statement, data, retval,
                   result, files, writes, files_at_call, attempted, console>>

\* driver.get(url)
Get ==
    /\ pc = "get"
    /\ \/ pc' = "wait" /\ UNCHANGED exc
       \/ pc' = "except" /\ exc' = "WebDriverException"
    /\ UNCHANGED <<linesep, problem_array, idx, sessions, soup, problem_statement, data,
                   retval, result, files, writes, files_at_call, attempted, console>>

\* WebDriverWait(driver, 20).until(presence_of_element_located(...))
Wait ==
    /\ pc = "wait"
    /\ \/ pc' = "parse" /\ UNCHANGED exc
       \/ pc' = "except" /\ exc' = "TimeoutException"
    /\ UNCHANGED <<linesep, problem_array, idx, sessions, soup, problem_statement, data,
                   retval, result, files, writes, files_at_call, attempted, console>>

\* Faulty variant: a snapshot without a statement region is extracted as a whole.
ParseFallback ==
    /\ pc = "parse"
    /\ \E page \in SmallPages :
         LET found == Find(page, {"div"}, <<"problem-statement">>)
         IN  /\ soup' = Some(page)
             /\ problem_statement' = IF found = None THEN Some(page) ELSE found
             /\ pc' = "extract" /\ UNCHANGED exc
    /\ UNCHANGED <<linesep, problem_array, idx, sessions, data, retval, result, files,
                   writes, files_at_call, attempted, console>>

\* soup = BeautifulSoup(driver.page_source); problem_statement = soup.find(...);
\* if not problem_statement: raise Exception(...)
ParseFrom(pages) ==
    /\ pc = "parse"
    /\ \/ \E page \in pages :
            LET found == Find(page, {"div"}, <<"problem-statement">>)
            IN  /\ soup' = Some(page)
                /\ problem_statement' = found
                /\ IF found = None
                   THEN pc' = "except" /\ exc' = "Exception"
                   ELSE pc' = "extract" /\ UNCHANGED exc
       \/ \* driver.page_source raises: the session is gone
          /\ pc' = "except" /\ exc' = "WebDriverException"
          /\ UNCHANGED <<soup, problem_statement>>
    /\ UNCHANGED <<linesep, problem_array, idx, sessions, data, retval, result, files,
                   writes, files_at_call, attempted, console>>

\* data = {}; title, time_limit, memory_limit, statement (lines 59-81)
ExtractFields ==
    /\ pc = "extract"
    /\ LET ps == problem_statement[1]
       IN  data' = StatementStep(
                     MemoryLimitStep(
                       TimeLimitStep(
                         TitleStep(EmptyDict, ps), ps), ps), ps)
    /\ pc' = "write_text"
    /\ UNCHANGED <<linesep, problem_array, idx, sessions, soup, problem_statement, exc,
                   retval, result, files, writes, files_at_call, attempted, console>>

\* Faulty variant: a failure to open the text file is swallowed and the call goes on.
WriteTextSwallow ==
    /\ pc = "write_text"
    /\ LET path == text_file_path(problem_id, linesep)
           content == FileBytes(data["statement"], linesep)
       IN  \/ /\ pc' = "samples"
              /\ UNCHANGED <<files, writes, exc>>
           \/ /\ \E n \in PartialLengths(content) :
                    files' = WriteFile(files, path, Truncated(content, n))
              /\ writes' = Append(writes, path)
              /\ pc' = "except" /\ exc' = "OSError"
           \/ /\ files' = WriteFile(files, path, Complete(content))
              /\ writes' = Append(writes, path)
              /\ pc' = "samples" /\ UNCHANGED exc
    /\ UNCHANGED <<linesep, problem_array, idx, sessions, soup, problem_statement, data,
                   retval, result, files_at_call, attempted, console>>

\* with open(text_file_path, 'w') as text_file: text_file.write(statement_text)
WriteText ==
    /\ pc = "write_text"
    /\ LET path == text_file_path(problem_id, linesep)
           content == FileBytes(data["statement"], linesep)
       IN  \/ /\ pc' = "except" /\ exc' = "OSError"
              /\ UNCHANGED <<files, writes>>
           \/ /\ \E n \in PartialLengths(content) :
                    files' = WriteFile(files, path, Truncated(content, n))
              /\ writes' = Append(writes, path)
              /\ pc' = "except" /\ exc' = "OSError"
           \/ /\ files' = WriteFile(files, path, Complete(content))
              /\ writes' = Append(writes, path)
              /\ pc' = "samples" /\ UNCHANGED exc
    /\ UNCHANGED <<linesep, problem_array, idx, sessions, soup, problem_statement, data,
                   retval, result, files_at_call, attempted, console>>

\* samples (lines 89-107)
Samples ==
    /\ pc = "samples"
    /\ data' = SetItem(data, "samples", SamplesOf(problem_statement[1]))
    /\ pc' = "tags"
    /\ UNCHANGED <<linesep, problem_array, idx, sessions, soup, problem_statement, exc,
                   retval, result, files, writes, files_at_call, attempted, console>>

\* tags (lines 109-117)
Tags ==
    /\ pc = "tags"
    /\ data' = SetItem(data, "tags", TagsOf(soup[1]))
    /\ pc' = "write_json"
    /\ UNCHANGED <<linesep, problem_array, idx, sessions, soup, problem_statement, exc,
                   retval, result, files, writes, files_at_call, attempted, console>>

\* with open(output_file, 'w') as f: json.dump(data, f, ...); return data
WriteJson ==
    /\ pc = "write_json"
    /\ LET path == output_file(problem_id, linesep)
           content == FileBytes(JsonDump(data), linesep)
       IN  \/ /\ pc' = "except" /\ exc' = "OSError"
              /\ UNCHANGED <<files, writes, retval>>
           \/ /\ \E n \in PartialLengths(content) :
                    files' = WriteFile(files, path, Truncated(content, n))
              /\ writes' = Append(writes, path)
              /\ pc' = "except" /\ exc' = "OSError"
              /\ UNCHANGED retval
           \/ /\ files' = WriteFile(files, path, Complete(content))
              /\ writes' = Append(writes, path)
              /\ retval' = Some(data)
              /\ pc' = "finally" /\ UNCHANGED exc
    /\ UNCHANGED <<linesep, problem_array, idx, sessions, soup, problem_statement, data,
                   result, files_at_call, attempted, console>>

\* except Exception as e: ...; return None
Except ==
    /\ pc = "except"
    /\ retval' = None
    /\ pc' = "finally"
    /\ UNCHANGED <<linesep, problem_array, idx, sessions, soup, problem_statement, data,
                   exc, result, files, writes, files_at_call, attempted, console>>

\* Faulty variant: the session is quit at the end of the try body, not in a finally clause.
FinallyQuitOnSuccessOnly ==
    /\ pc = "finally"
    /\ sessions' = IF exc = "" THEN [sessions EXCEPT ![Len(sessions)] = "quit"]
                   ELSE sessions
    /\ result' = retval
    /\ pc' = "returned"
    /\ UNCHANGED <<linesep, problem_array, idx, soup, problem_statement, data, exc,
                   retval, files, writes, files_at_call, attempted, console>>

\* finally: time.sleep(3); driver.quit() -- then the call returns to line 170.
\* quit() is taken to end the session without raising.
Finally ==
    /\ pc = "finally"
    /\ sessions' = [sessions EXCEPT ![Len(sessions)] = "quit"]
    /\ result' = retval
    /\ pc' = "returned"
    /\ UNCHANGED <<linesep, problem_array, idx, soup, problem_statement, data, exc,
                   retval, files, writes, files_at_call, attempted, console>>

\* The site serves one of a few representative documents ...
Parse == ParseFrom(SmallPages)
\* ... or any document of the bounded families.
ParseAny == ParseFrom(BigPages)

Next ==
    \/ MainCall \/ MainReport \/ MainUncaught \/ MainExit
    \/ SetupDriver \/ Get \/ Wait \/ Parse \/ ExtractFields \/ WriteText
    \/ Samples \/ Tags \/ WriteJson \/ Except \/ Finally

NextPage ==
    \/ MainCall \/ MainReport \/ MainUncaught \/ MainExit
    \/ SetupDriver \/ Get \/ Wait \/ ParseAny \/ ExtractFields \/ WriteText
    \/ Samples \/ Tags \/ WriteJson \/ Except \/ Finally

Spec == Init /\ [][Next]_vars
SpecPage == InitPage /\ [][NextPage]_vars
(***************************************************************************)
(* Definitions the properties share.                                       *)
(***************************************************************************)
OpenSessions == {i \in 1..Len(sessions) : sessions[i] = "open"}
InTry == pc \in {"get", "wait", "parse", "extract", "write_text", "samples", "tags",
                 "write_json", "except", "finally"}
RegionAbsent ==
    soup # None /\ Find(soup[1], {"div"}, <<"problem-statement">>) = None
Exists(path) == path \in DOMAIN files
Occurrences(s, x) == Cardinality({i \in 1..Len(s) : s[i] = x})
TxtArtifact == text_file_path(problem_id, linesep)
JsonArtifact == output_file(problem_id, linesep)

(***************************************************************************)
(* C1: a call to scrape_problem never exits by raising: every hard error,  *)
(* the failure to open the browser session included, ends in a return of   *)
(* None.                                                                   *)
(***************************************************************************)
C1_NeverRaises == pc # "raised"

(***************************************************************************)
(* C2: every session a call opens is quit before the call returns, on      *)
(* every exit path; no session is open between two calls and at most one   *)
(* is open at any time.                                                    *)
(***************************************************************************)
C2_SessionClosed ==
    /\ Cardinality(OpenSessions) <= 1
    /\ InTry => sessions # <<>> /\ OpenSessions \subseteq {Len(sessions)}
    /\ pc \in {"main", "setup_driver", "returned", "raised", "crashed", "done"}
         => OpenSessions = {}

\* The second call has returned after a failure and both sessions are quit.
C2_Witness ==
    /\ pc = "returned" /\ exc # "" /\ result = None
    /\ Len(sessions) = 2 /\ OpenSessions = {}

(***************************************************************************)
(* C3: when the wait times out, or the parsed snapshot holds no statement  *)
(* region, the call returns None and has neither created nor modified any  *)
(* file.                                                                   *)
(***************************************************************************)
C3_NoFilesOnTimeoutOrMissing ==
    (pc = "returned" /\ (exc = "TimeoutException" \/ RegionAbsent))
        => /\ result = None
           /\ writes = <<>>
           /\ files = files_at_call

\* A call that found no region has returned, in a directory an earlier call filled.
C3_Witness ==
    /\ pc = "returned" /\ RegionAbsent /\ result = None
    /\ files_at_call # EmptyDir /\ files = files_at_call

(***************************************************************************)
(* C4 as stated: from an empty directory, after a call returns the .txt    *)
(* artifact exists if and only if the .json artifact exists.               *)
(***************************************************************************)
C4_TogetherOrNotAtAll ==
    (pc = "returned" /\ files_at_call = EmptyDir)
        => (Exists(TxtArtifact) <=> Exists(JsonArtifact))

(***************************************************************************)
(* C4 amended: from an empty directory, the .json artifact exists only if  *)
(* the .txt artifact does, each is opened for writing at most once in the  *)
(* call, and a call that returns a record has written both completely,    *)
(* the .txt first.  A call that returns None may leave the .txt behind.    *)
(***************************************************************************)
C4_JsonOnlyAfterText ==
    (idx >= 1 /\ files_at_call = EmptyDir)
        => /\ Exists(JsonArtifact) => Exists(TxtArtifact)
           /\ Occurrences(writes, TxtArtifact) <= 1
           /\ Occurrences(writes, JsonArtifact) <= 1
           /\ (pc = "returned" /\ result # None)
                => /\ writes = <<TxtArtifact, JsonArtifact>>
                   /\ files[TxtArtifact].complete /\ files[JsonArtifact].complete

\* The JSON write failed: the call returned None and left the .txt artifact alone.
C4_Witness ==
    /\ pc = "returned" /\ result = None /\ files_at_call = EmptyDir
    /\ Exists(TxtArtifact) /\ files[TxtArtifact].complete
    /\ ~Exists(JsonArtifact)

(***************************************************************************)
(* C5: the driver passes every identifier of its list to scrape_problem    *)
(* exactly once, in list order, and always reaches the end of the list.    *)
(***************************************************************************)
C5_ReachesEndOfList ==
    /\ attempted = SubSeq(problem_array, 1, idx)
    /\ pc \in {"done", "crashed"} => attempted = problem_array

(***************************************************************************)
(* C6: a successful extraction writes exactly two files, problem_<stem>.txt*)
(* and problem_<stem>.json, whose common stem is the identifier with every *)
(* '/' replaced by '_' and nothing else changed; '1/A' and '1/B', both     *)
(* extracted, leave exactly the four artifacts problem_1_A.* and           *)
(* problem_1_B.*.  The files are in scraped_data, named with the directory *)
(* separator of the platform.                                              *)
(***************************************************************************)
DirSep == IF linesep = <<"\n">> THEN "/" ELSE "\\"

IsStemOf(stem, id) ==
    /\ Len(stem) = Len(id)
    /\ \A i \in 1..Len(id) :
         /\ id[i] = "/" => stem[i] = "_"
         /\ id[i] # "/" => stem[i] = id[i]

IsArtifact(path, id, suffix) ==
    /\ Len(path) = Len(id) + 4
    /\ SubSeq(path, 1, 3) = <<"scraped_data", DirSep, "problem_">>
    /\ IsStemOf(SubSeq(path, 4, Len(path) - 1), id)
    /\ path[Len(path)] = suffix

FourArtifacts ==
    { <<"scraped_data", DirSep, "problem_", "1", "_", "A", ".txt">>,
      <<"scraped_data", DirSep, "problem_", "1", "_", "A", ".json">>,
      <<"scraped_data", DirSep, "problem_", "1", "_", "B", ".txt">>,
      <<"scraped_data", DirSep, "problem_", "1", "_", "B", ".json">> }

BothExtracted ==
    /\ pc = "main"
    /\ attempted = << <<"1", "/", "A">>, <<"1", "/", "B">> >>
    /\ console = <<"ok", "ok">>

C6_TwoArtifactsPerIdentifier ==
    /\ (pc = "returned" /\ result # None)
         => /\ Len(writes) = 2
            /\ IsArtifact(writes[1], problem_id, ".txt")
            /\ IsArtifact(writes[2], problem_id, ".json")
            /\ SubSeq(writes[1], 1, Len(writes[1]) - 1)
                 = SubSeq(writes[2], 1, Len(writes[2]) - 1)
            /\ DOMAIN files = DOMAIN files_at_call \cup {writes[1], writes[2]}
    /\ BothExtracted => DOMAIN files = FourArtifacts

\* Both '1/A' and '1/B' were extracted and the four artifacts are there, on the
\* platform whose separator is the backslash.
C6_Witness ==
    /\ BothExtracted /\ Cardinality(DOMAIN files) = 4
    /\ linesep = <<"\r", "\n">>

(***************************************************************************)
(* C7: the statement is the newline-join of M ++ P without its empty       *)
(* fragments: M the '$$ text $$' of every math span in document order, P   *)
(* the trimmed text of every p or div with no math span below it, in       *)
(* document order.  One math span 'x+y' and one paragraph 'Compute x+y.'   *)
(* give '$$ x+y $$', a newline, 'Compute x+y.', in either source order.    *)
(***************************************************************************)
IsMathSpan(n) == n.tag = "span" /\ "math" \in Range(n.cls)
HoldsNoMath(n) == \A i \in 1..Len(DescendantsOf(n.kids)) :
                      ~IsMathSpan(DescendantsOf(n.kids)[i])
IsBlock(n) == n.tag \in {"p", "div"}

MathFragments(region) ==
    LET spans == SelectSeq(DescendantsOf(region.kids), IsMathSpan)
    IN  [i \in 1..Len(spans) |->
            <<"$", "$", " ">> \o Strip(GetText(spans[i])) \o <<" ", "$", "$">>]

ProseFragments(region) ==
    LET Keep(n) == IsBlock(n) /\ HoldsNoMath(n)
        blocks == SelectSeq(DescendantsOf(region.kids), Keep)
    IN  [i \in 1..Len(blocks) |-> Strip(GetText(blocks[i]))]

Lines(fragments) ==
    Flatten([i \in 1..Len(fragments) |->
                IF i < Len(fragments) THEN fragments[i] \o <<"\n">> ELSE fragments[i]])

ExpectedStatement(region) ==
    LET NonEmpty(f) == Len(f) > 0
    IN  Lines(SelectSeq(MathFragments(region) \o ProseFragments(region), NonEmpty))

ExampleMath == MathSpan(<<" ">> \o XPlusY \o <<" ">>)
ExampleStatement == <<"$", "$", " ">> \o XPlusY \o <<" ", "$", "$", "\n">> \o ComputeXPlusY

C7_MathBeforeProse ==
    "statement" \in DOMAIN data
        => /\ data["statement"] = ExpectedStatement(problem_statement[1])
           /\ problem_statement[1].kids \in
                 { <<ExampleMath, P(ComputeXPlusY)>>, <<P(ComputeXPlusY), ExampleMath>> }
                => data["statement"] = ExampleStatement

\* The paragraph precedes the math span in the document and follows it in the record.
C7_Witness ==
    /\ pc = "returned" /\ result # None
    /\ problem_statement[1].kids = <<P(ComputeXPlusY), ExampleMath>>
    /\ result[1]["statement"] = ExampleStatement

(***************************************************************************)
(* C8 as stated: samples holds exactly one pair for each sample-test       *)
(* marker of the region that has an input sub-element with an inner pre    *)
(* and an output sub-element with an inner pre (any such sub-elements),    *)
(* and nothing for any other marker.                                       *)
(***************************************************************************)
HasClass(n, c) == c \in Range(n.cls)
DivsOfClass(n, c) ==
    LET Hit(m) == m.tag = "div" /\ HasClass(m, c)
    IN  SelectSeq(DescendantsOf(n.kids), Hit)
PresBelow(n) ==
    LET Hit(m) == m.tag = "pre" IN SelectSeq(DescendantsOf(n.kids), Hit)

WellFormedSample(marker) ==
    /\ DivsOfClass(marker, "input") # <<>> /\ DivsOfClass(marker, "output") # <<>>
    /\ PresBelow(DivsOfClass(marker, "input")[1]) # <<>>
    /\ PresBelow(DivsOfClass(marker, "output")[1]) # <<>>

ExpectedSamples(region) ==
    LET markers == SelectSeq(DivsOfClass(region, "sample-test"), WellFormedSample)
    IN  [i \in 1..Len(markers) |->
            [input |-> Strip(GetText(PresBelow(DivsOfClass(markers[i], "input")[1])[1])),
             output |-> Strip(GetText(PresBelow(DivsOfClass(markers[i], "output")[1])[1]))]]

HasSideWithPre(marker, side) ==
    \E i \in 1..Len(DivsOfClass(marker, side)) :
        PresBelow(DivsOfClass(marker, side)[i]) # <<>>

HasBothSides(marker) ==
    HasSideWithPre(marker, "input") /\ HasSideWithPre(marker, "output")

C8_PairForEveryMarkerWithBothSides ==
    "samples" \in DOMAIN data
        => Len(data["samples"])
             = Len(SelectSeq(DivsOfClass(problem_statement[1], "sample-test"),
                             HasBothSides))

(***************************************************************************)
(* C8 amended: samples holds one {input, output} pair, the trimmed texts   *)
(* of the two pre elements, for each sample-test marker of the region      *)
(* whose first input sub-element and first output sub-element both hold a  *)
(* pre, in document order, and nothing for any other marker: none for a    *)
(* marker without an output sub-element, and none for a marker whose first *)
(* input sub-element holds no pre even when a later one does.  With no     *)
(* marker samples is empty, both artifacts are written and the record is   *)
(* returned.                                                               *)
(***************************************************************************)
C8_SamplesOfWellFormedMarkers ==
    /\ "samples" \in DOMAIN data
         => data["samples"] = ExpectedSamples(problem_statement[1])
    /\ (pc = "returned" /\ problem_statement # None /\ exc # "OSError"
          /\ DivsOfClass(problem_statement[1], "sample-test") = <<>>)
         => /\ result # None /\ result[1]["samples"] = <<>>
            /\ Exists(TxtArtifact) /\ Exists(JsonArtifact)

\* Two markers: the first is complete, the second has a pre only in its second
\* input sub-element.  One pair is returned.
C8_Witness ==
    /\ pc = "returned" /\ result # None
    /\ Len(DivsOfClass(problem_statement[1], "sample-test")) = 2
    /\ WellFormedSample(DivsOfClass(problem_statement[1], "sample-test")[1])
    /\ HasBothSides(DivsOfClass(problem_statement[1], "sample-test")[2])
    /\ ~WellFormedSample(DivsOfClass(problem_statement[1], "sample-test")[2])
    /\ Len(result[1]["samples"]) = 1

(***************************************************************************)
(* C9 as stated: tags are collected even when the parsed snapshot holds no *)
(* statement region.                                                       *)
(***************************************************************************)
C9_TagsWithoutRegion ==
    (pc = "returned" /\ RegionAbsent) => "tags" \in DOMAIN data

(***************************************************************************)
(* C9 amended: tags are collected from the full document, one per element  *)
(* carrying the compound class marker that holds a tag marker, but only    *)
(* when the statement region is present: without it the attempt fails      *)
(* before the collection.                                                  *)
(***************************************************************************)
ExpectedTags(document) ==
    LET IsBox(n) == n.tag = "div" /\ n.cls = RoundBox
        IsTag(n) == n.tag = "span" /\ HasClass(n, "tag-box")
        HasTag(n) == IsBox(n) /\ SelectSeq(DescendantsOf(n.kids), IsTag) # <<>>
        boxes == SelectSeq(DescendantsOf(document.kids), HasTag)
    IN  [i \in 1..Len(boxes) |->
            Strip(GetText(SelectSeq(DescendantsOf(boxes[i].kids), IsTag)[1]))]

C9_TagsFromFullDocument ==
    "tags" \in DOMAIN data
        => /\ ~RegionAbsent /\ problem_statement # None
           /\ data["tags"] = ExpectedTags(soup[1])

\* Tags were returned that lie outside the statement region.
C9_Witness ==
    /\ pc = "returned" /\ result # None
    /\ Len(result[1]["tags"]) = 2
    /\ ExpectedTags(problem_statement[1]) = <<>>

(***************************************************************************)
(* C10: with the region present, title, time_limit and memory_limit are    *)
(* each in the record exactly when the region holds their marker, with the *)
(* trimmed text of the first such marker; statement, samples and tags are  *)
(* always there; and the record is returned whichever markers are absent   *)
(* (a failed file write is the only thing that turns the call to None).    *)
(***************************************************************************)
OptionalOK(record, key, class) ==
    LET markers == DivsOfClass(problem_statement[1], class)
    IN  /\ key \in DOMAIN record <=> markers # <<>>
        /\ markers # <<>> => record[key] = Strip(GetText(markers[1]))

OptionalsOK(record) ==
    /\ OptionalOK(record, "title", "title")
    /\ OptionalOK(record, "time_limit", "time-limit")
    /\ OptionalOK(record, "memory_limit", "memory-limit")

C10_OptionalFields ==
    /\ "statement" \in DOMAIN data => OptionalsOK(data)
    /\ (pc = "returned" /\ problem_statement # None /\ exc # "OSError")
         => /\ result # None
            /\ {"statement", "samples", "tags"} \subseteq DOMAIN result[1]
            /\ OptionalsOK(result[1])
            /\ problem_statement[1].kids = <<Header(1, 0, 0), P(ComputeXPlusY)>>
                 => result[1]["title"] = <<"T", "1">>

\* No optional marker at all, and the record is returned with the three fixed keys.
C10_Witness ==
    /\ pc = "returned" /\ result # None
    /\ DivsOfClass(problem_statement[1], "title") = <<>>
    /\ DOMAIN result[1] = {"statement", "samples", "tags"}
=============================================================================
